---- MODULE Spec2Model ----
(***************************************************************************)
(* A model of the indra_cogex sources pipeline:                            *)
(*   - the orchestrator, main() of sources/cli.py, as a state machine      *)
(*     whose steps are the iterations of its loop over the registered      *)
(*     processors, the assembly step and the import step;                  *)
(*   - the serializer of sources/processor.py (validate_nodes,             *)
(*     validate_relations, _dump_nodes, _dump_nodes_to_path,               *)
(*     _dump_edges_to_path) as operators applied to bounded input streams. *)
(*   - the file writes of one dump(), file by file, with a write that may  *)
(*     raise, and the check a later run makes of the files left behind.    *)
(*                                                                         *)
(* Processor._get_node_paths (processor.py:90-103) is declared             *)
(* @staticmethod with a leading `self` parameter, so its two callers       *)
(* (cli.py:111, processor.py:109), which pass the node type alone, raise   *)
(* TypeError as the code stands.  The model takes the body of the function *)
(* with `self` bound to the processor class, the binding both callers are  *)
(* written for; everything below is about the pipeline behind that call.   *)
(***************************************************************************)
EXTENDS Integers, Sequences, FiniteSets, TLC

VARIABLES
    opts,                   \* the command line flags of main()
    disk,                   \* the set of paths that exist
    pc,                     \* position of main(): loop, assemble, import, done, aborted
    idx,                    \* index in the registry of the processor visited next
    nodes_paths_for_import, \* cli.py:92
    edge_paths,             \* cli.py:96
    node_assemblers,        \* cli.py:97: node type -> what was added, in order
    checked,                \* history: the processors checked (cli.py:101), each with the disk it saw
    attempted,              \* history: processors whose construction was attempted
    failed,                 \* history: processors whose constructor raised FileNotFoundError
    dumped,                 \* history: processors whose dump() ran, in order
    assembled,              \* history: node types whose assembler ran assemble(), in order
    command,                \* the bulk-load command (cli.py:173-189), or NoCommand
    kind,                   \* serializer: which dump is applied (nodes, edges, none)
    input,                  \* serializer: the stream the processor yields
    snapshot,               \* serializer: the content of the native snapshot (nodes.pkl)
    bulk,                   \* serializer: the bulk file [header, rows]
    sample,                 \* serializer: the sample file [header, rows]
    written,                \* serializer: the records the rows of the bulk file were made of
    returned,               \* serializer: the nodes dump() returns for the node type
    handed,                 \* serializer: the nodes main() passes to add_nodes
    diagnostics,            \* serializer: the diagnostics logged by the validator
    dpc,                    \* serializer: idle, start, done
    wproc,                  \* file writes: the processor whose dump() is writing
    wpos,                   \* file writes: the next step of its write plan
    wpc,                    \* file writes: idle, writing, raised, finished
    partial,                \* file writes: paths opened for writing and not yet closed
    later                   \* file writes: what a later run decides (none, extracts, skips)

orchVars == <<opts, disk, pc, idx, nodes_paths_for_import, edge_paths,
              node_assemblers, checked, attempted, failed, dumped, assembled,
              command>>
dumpVars == <<kind, input, snapshot, bulk, sample, written, returned, handed,
              diagnostics, dpc>>
writeVars == <<wproc, wpos, wpc, partial, later>>
vars == <<orchVars, dumpVars, writeVars>>

(***************************************************************************)
(* Generic helpers on sequences.                                           *)
(***************************************************************************)
Range(s) == {s[i] : i \in DOMAIN s}

RECURSIVE RemoveFirst(_, _)
\* list.remove(x): the list without the first occurrence of x
RemoveFirst(s, x) ==
    IF s = <<>> THEN <<>>
    ELSE IF Head(s) = x THEN Tail(s)
    ELSE <<Head(s)>> \o RemoveFirst(Tail(s), x)

RECURSIVE RemoveAll(_, _)
\* for path in paths: s.remove(path)
RemoveAll(s, paths) ==
    IF paths = <<>> THEN s
    ELSE RemoveAll(RemoveFirst(s, Head(paths)), Tail(paths))

PopKeepsLast(s) == s

\* list.pop(): the list without its last element
Pop(s) == SubSeq(s, 1, Len(s) - 1)

(***************************************************************************)
(* The registry and the paths.                                             *)
(***************************************************************************)
\* cli.py:90
to_assemble == <<"BioEntity", "Publication">>

\* The registered processor classes, in the order _iter_resolvers() yields them.
Registry == <<
    [name |-> "alpha", importable |-> TRUE,  node_types |-> <<"BioEntity", "Publication">>],
    [name |-> "beta",  importable |-> TRUE,  node_types |-> <<"Domain">>],
    [name |-> "gamma", importable |-> TRUE,  node_types |-> <<"BioEntity", "Pathway">>],
    [name |-> "delta", importable |-> FALSE, node_types |-> <<"Domain">>] >>

Procs == DOMAIN Registry

\* cli.py:25-29
_get_assembled_path(node_type) == "assembled/nodes_" \o node_type \o ".tsv.gz"

\* processor.py:90-103: (nodes_path, nodes_indra_path, sample_path), with `self`
\* bound to the processor class
_get_node_paths(p, node_type) ==
    IF Len(Registry[p].node_types) > 1
    THEN << Registry[p].name \o "/nodes_" \o node_type \o ".tsv.gz",
            Registry[p].name \o "/nodes_" \o node_type \o ".pkl",
            Registry[p].name \o "/nodes_" \o node_type \o "_sample.tsv" >>
    ELSE << Registry[p].name \o "/nodes.tsv.gz",
            Registry[p].name \o "/nodes.pkl",
            Registry[p].name \o "/nodes_sample.tsv" >>

\* processor.py:56
edges_path(p) == Registry[p].name \o "/edges.tsv.gz"

\* processor.py:157
edges_sample_path(p) == Registry[p].name \o "/edges_sample.tsv"


(***************************************************************************)
(* What main() computes for one processor class before deciding to run it  *)
(* (cli.py:103-123).                                                       *)
(***************************************************************************)
InToAssemble(node_type) == node_type \in Range(to_assemble)

\* cli.py:116-118: the tabular node files that are imported directly
processor_import_paths(p) ==
    LET types == SelectSeq(Registry[p].node_types, LAMBDA t : ~InToAssemble(t))
    IN  [i \in DOMAIN types |-> _get_node_paths(p, types[i])[1]]

\* cli.py:112-114: the node types whose snapshot is stored for assembly
processor_to_assemble_paths(p) ==
    SelectSeq(Registry[p].node_types, InToAssemble)

ProcessedMissingEdgesIgnored(p, d) ==
    \A i \in DOMAIN Registry[p].node_types :
        /\ _get_node_paths(p, Registry[p].node_types[i])[1] \in d
        /\ _get_node_paths(p, Registry[p].node_types[i])[2] \in d

\* cli.py:103, 119-122: the value of `processed` after the checks
Processed(p, d) ==
    /\ \A i \in DOMAIN Registry[p].node_types :
          /\ _get_node_paths(p, Registry[p].node_types[i])[1] \in d
          /\ _get_node_paths(p, Registry[p].node_types[i])[2] \in d
    /\ edges_path(p) \in d

NeedsRunForceIgnored(o, p, d) == o.process /\ ~Processed(p, d)

\* cli.py:126
NeedsRun(o, p, d) == o.force_process \/ (o.process /\ ~Processed(p, d))

\* assembly whenever it is asked for, whether the assembled file exists or not
NeedsAssemblyFileIgnored(o, node_type, d) == o.force_assemble \/ o.assemble

NeedsAssemblyForceIgnored(o, node_type, d) ==
    o.assemble /\ _get_assembled_path(node_type) \notin d

\* cli.py:145 and cli.py:154
NeedsAssembly(o, node_type, d) ==
    o.force_assemble \/ (o.assemble /\ _get_assembled_path(node_type) \notin d)

\* a dump() that writes no edge file
DumpOutputsWithoutEdges(p) ==
    UNION { { _get_node_paths(p, Registry[p].node_types[i])[1],
              _get_node_paths(p, Registry[p].node_types[i])[2],
              _get_node_paths(p, Registry[p].node_types[i])[3] }
            : i \in DOMAIN Registry[p].node_types }

\* processor.py:84-88, 105-122, 156-160: the files a dump() of p writes
DumpOutputs(p) ==
    UNION { { _get_node_paths(p, Registry[p].node_types[i])[1],
              _get_node_paths(p, Registry[p].node_types[i])[2],
              _get_node_paths(p, Registry[p].node_types[i])[3] }
            : i \in DOMAIN Registry[p].node_types }
    \cup {edges_path(p), edges_sample_path(p)}

ReraisesNever(o) == FALSE

\* cli.py:130-131: the FileNotFoundError is raised again
Reraises(o) == ~o.skip_failed_processors

HasAssembler(na, node_type) == \E i \in DOMAIN na : na[i].node_type = node_type

add_nodesToNewAssembler(na, node_type, nodes) ==
    IF HasAssembler(na, node_type)
    THEN [i \in DOMAIN na |->
            IF na[i].node_type = node_type
            THEN [na[i] EXCEPT !.added = <<nodes>>]
            ELSE na[i]]
    ELSE Append(na, [node_type |-> node_type, added |-> <<nodes>>])

\* cli.py:147-149 and cli.py:156-160: instantiate the assembler or add to it
add_nodes(na, node_type, nodes) ==
    IF HasAssembler(na, node_type)
    THEN [i \in DOMAIN na |->
            IF na[i].node_type = node_type
            THEN [na[i] EXCEPT !.added = Append(@, nodes)]
            ELSE na[i]]
    ELSE Append(na, [node_type |-> node_type, added |-> <<nodes>>])

RECURSIVE Accumulate(_, _, _, _, _, _)
\* cli.py:142-149 (origin fresh) and cli.py:152-160 (origin snapshot)
Accumulate(na, types, p, origin, o, d) ==
    IF types = <<>> THEN na
    ELSE Accumulate(
            IF NeedsAssembly(o, Head(types), d)
            THEN add_nodes(na, Head(types), [proc |-> p, origin |-> origin])
            ELSE na,
            Tail(types), p, origin, o, d)

(***************************************************************************)
(* The state before main() runs.                                           *)
(***************************************************************************)
AssembledPaths == {_get_assembled_path(to_assemble[i]) : i \in DOMAIN to_assemble}

\* What an earlier run or an operator can have left of a processor's outputs.
DiskScenarios(p) ==
    LET first == _get_node_paths(p, Registry[p].node_types[1])
    IN  { {},
          DumpOutputs(p),
          DumpOutputs(p) \ {edges_path(p)},
          DumpOutputs(p) \ {first[1]},
          DumpOutputs(p) \ {first[2]} }

InitDisks ==
    { a \cup b \cup c \cup m :
        a \in DiskScenarios(1), b \in DiskScenarios(2),
        c \in DiskScenarios(3), m \in SUBSET AssembledPaths }

Options ==
    [process : BOOLEAN, force_process : BOOLEAN, assemble : BOOLEAN,
     force_assemble : BOOLEAN, skip_failed_processors : BOOLEAN]

NoCommand == [built |-> FALSE, nodes |-> <<>>, edges |-> <<>>]

DumpIdle ==
    /\ kind = "none"
    /\ input = <<>>
    /\ snapshot = <<>>
    /\ bulk = [header |-> <<>>, rows |-> <<>>]
    /\ sample = [header |-> <<>>, rows |-> <<>>]
    /\ written = <<>>
    /\ returned = <<>>
    /\ handed = <<>>
    /\ diagnostics = <<>>
    /\ dpc = "idle"

WriteIdle ==
    /\ wproc = 1
    /\ wpos = 1
    /\ wpc = "idle"
    /\ partial = {}
    /\ later = "none"

\* cli.py:90-97
Init ==
    /\ opts \in Options
    /\ disk \in InitDisks
    /\ pc = "loop"
    /\ idx = 1
    /\ nodes_paths_for_import =
          [i \in DOMAIN to_assemble |-> _get_assembled_path(to_assemble[i])]
    /\ edge_paths = <<>>
    /\ node_assemblers = <<>>
    /\ checked = <<>>
    /\ attempted = {}
    /\ failed = {}
    /\ dumped = <<>>
    /\ assembled = <<>>
    /\ command = NoCommand
    /\ DumpIdle
    /\ WriteIdle

(***************************************************************************)
(* One iteration of the loop of main() over the registry (cli.py:98-160).  *)
(***************************************************************************)
\* the loop goes on with the next processor class, or ends
Advance == 
    /\ idx' = idx + 1
    /\ pc' = IF idx = Len(Registry) THEN "assemble" ELSE "loop"

\* cli.py:101-123
Check(p) ==
    /\ checked' = Append(checked, [proc |-> p, disk |-> disk])

\* cli.py:99-100
VisitNotImportable ==
    /\ pc = "loop"
    /\ ~Registry[idx].importable
    /\ Advance
    /\ UNCHANGED <<opts, disk, nodes_paths_for_import, edge_paths, node_assemblers,
                   checked, attempted, failed, dumped, assembled, command>>

\* cli.py:101-128, 138-149: the processor is constructed and dumped
VisitRun ==
    /\ pc = "loop"
    /\ Registry[idx].importable
    /\ NeedsRun(opts, idx, disk)
    /\ Check(idx)
    /\ nodes_paths_for_import' = nodes_paths_for_import \o processor_import_paths(idx)
    /\ edge_paths' = Append(edge_paths, edges_path(idx))
    /\ attempted' = attempted \cup {idx}
    /\ disk' = disk \cup DumpOutputs(idx)
    /\ dumped' = Append(dumped, idx)
    /\ node_assemblers' =
          Accumulate(node_assemblers, processor_to_assemble_paths(idx), idx,
                     "fresh", opts, disk')
    /\ Advance
    /\ UNCHANGED <<opts, failed, assembled, command>>

\* cli.py:101-137: the constructor raises FileNotFoundError
VisitFail ==
    /\ pc = "loop"
    /\ Registry[idx].importable
    /\ NeedsRun(opts, idx, disk)
    /\ Check(idx)
    /\ attempted' = attempted \cup {idx}
    /\ failed' = failed \cup {idx}
    /\ IF Reraises(opts)
       THEN \* cli.py:130-131: the exception leaves main()
            /\ pc' = "aborted"
            /\ nodes_paths_for_import' =
                  nodes_paths_for_import \o processor_import_paths(idx)
            /\ edge_paths' = Append(edge_paths, edges_path(idx))
            /\ UNCHANGED idx
       ELSE \* cli.py:132-137
            /\ nodes_paths_for_import' =
                  RemoveAll(nodes_paths_for_import \o processor_import_paths(idx),
                            processor_import_paths(idx))
            /\ edge_paths' = Pop(Append(edge_paths, edges_path(idx)))
            /\ Advance
    /\ UNCHANGED <<opts, disk, node_assemblers, dumped, assembled, command>>

\* cli.py:101-126, 150-160: the stored outputs are used
VisitStored ==
    /\ pc = "loop"
    /\ Registry[idx].importable
    /\ ~NeedsRun(opts, idx, disk)
    /\ Processed(idx, disk)
    /\ Check(idx)
    /\ nodes_paths_for_import' = nodes_paths_for_import \o processor_import_paths(idx)
    /\ edge_paths' = Append(edge_paths, edges_path(idx))
    /\ node_assemblers' =
          Accumulate(node_assemblers, processor_to_assemble_paths(idx), idx,
                     "snapshot", opts, disk)
    /\ Advance
    /\ UNCHANGED <<opts, disk, attempted, failed, dumped, assembled, command>>

\* cli.py:101-126, 150: outputs are missing and processing was not asked for
VisitMissing ==
    /\ pc = "loop"
    /\ Registry[idx].importable
    /\ ~NeedsRun(opts, idx, disk)
    /\ ~Processed(idx, disk)
    /\ Check(idx)
    /\ nodes_paths_for_import' = nodes_paths_for_import \o processor_import_paths(idx)
    /\ edge_paths' = Append(edge_paths, edges_path(idx))
    /\ Advance
    /\ UNCHANGED <<opts, disk, node_assemblers, attempted, failed, dumped,
                   assembled, command>>

\* NodeAssembler.assemble(assembled_path): the assembled file is written
assemble(d, assembled_path) == d \cup {assembled_path}

RECURSIVE AssembleAll(_, _)
\* cli.py:164-168
AssembleAll(d, assemblers) ==
    IF assemblers = <<>> THEN d
    ELSE AssembleAll(assemble(d, _get_assembled_path(Head(assemblers).node_type)),
                     Tail(assemblers))

\* cli.py:162-168
Assemble ==
    /\ pc = "assemble"
    /\ assembled' = [i \in DOMAIN node_assemblers |-> node_assemblers[i].node_type]
    /\ disk' = AssembleAll(disk, node_assemblers)
    /\ pc' = "import"
    /\ UNCHANGED <<opts, idx, nodes_paths_for_import, edge_paths, node_assemblers,
                   checked, attempted, failed, dumped, command>>

\* cli.py:170-189
Import ==
    /\ pc = "import"
    /\ \E run_import \in BOOLEAN :
          command' = IF run_import
                     THEN [built |-> TRUE, nodes |-> nodes_paths_for_import,
                           edges |-> edge_paths]
                     ELSE command
    /\ pc' = "done"
    /\ UNCHANGED <<opts, disk, idx, nodes_paths_for_import, edge_paths,
                   node_assemblers, checked, attempted, failed, dumped, assembled>>

Next ==
    \/ (VisitNotImportable /\ UNCHANGED <<dumpVars, writeVars>>)
    \/ (VisitRun /\ UNCHANGED <<dumpVars, writeVars>>)
    \/ (VisitFail /\ UNCHANGED <<dumpVars, writeVars>>)
    \/ (VisitStored /\ UNCHANGED <<dumpVars, writeVars>>)
    \/ (VisitMissing /\ UNCHANGED <<dumpVars, writeVars>>)
    \/ (Assemble /\ UNCHANGED <<dumpVars, writeVars>>)
    \/ (Import /\ UNCHANGED <<dumpVars, writeVars>>)

Spec == Init /\ [][Next]_vars


(***************************************************************************)
(* The serializer (sources/processor.py).  Strings are ordered as Python   *)
(* orders them; the model knows the order of the strings it uses.          *)
(***************************************************************************)
\* the namespaces, the local ids and the attribute keys of the model, in str order
NsOrder == <<"CHEBI", "HGNC", "XX", "indra_evidence">>
IdOrder == <<"1", "2", "x">>
KeyOrder == <<"end", "junk", "name", "start", "tax">>

Rank(order, x) == CHOOSE i \in DOMAIN order : order[i] = x

RECURSIVE TupleLess(_, _)
\* Python's < on tuples of equal length
TupleLess(a, b) ==
    IF a = <<>> THEN FALSE
    ELSE IF Head(a) # Head(b) THEN Head(a) < Head(b)
    ELSE TupleLess(Tail(a), Tail(b))

RECURSIVE InsertByKey(_, _)
\* x goes behind every element whose key is not greater than its own
InsertByKey(s, x) ==
    IF s = <<>> THEN <<x>>
    ELSE IF TupleLess(x.key, Head(s).key) THEN <<x>> \o s
    ELSE <<Head(s)>> \o InsertByKey(Tail(s), x)

\* the records left in arrival order
SortedByKeyArrivalOrder(s) == s

RECURSIVE SortedByKey(_)
\* sorted(..., key=...): a stable sort of a sequence of [key, val]
SortedByKey(s) ==
    IF s = <<>> THEN <<>>
    ELSE InsertByKey(SortedByKey(SubSeq(s, 1, Len(s) - 1)), s[Len(s)])

Undecorate(s) == [i \in DOMAIN s |-> s[i].val]

\* dict.keys() of an attribute mapping, kept as a sequence of <<key, value>>
Keys(data) == {data[i][1] : i \in DOMAIN data}

HasKey(data, key) == key \in Keys(data)

\* data[key]
Lookup(data, key) == data[CHOOSE i \in DOMAIN data : data[i][1] = key][2]

\* the value of Python's None
None == "<None>"

\* processor.py:133: node.data.get(key, "")
GetOrEmpty(data, key) == IF HasKey(data, key) THEN Lookup(data, key) ELSE ""

\* processor.py:174: rel.data.get(key)
GetOrNone(data, key) == IF HasKey(data, key) THEN Lookup(data, key) ELSE None

\* csv.writer (processor.py:140, 180): None is written as the empty string
CsvField(v) == IF v = None THEN "" ELSE v

CsvRow(row) == [i \in DOMAIN row |-> CsvField(row[i])]

\* the name of a namespace as norm_id writes it
LowerNs(ns) ==
    CASE ns = "CHEBI" -> "chebi"
      [] ns = "HGNC" -> "hgnc"
      [] ns = "XX" -> "xx"
      [] OTHER -> ns

\* indra_cogex.representation.norm_id (processor.py:131, 171-172)
norm_id(db_ns, db_id) == LowerNs(db_ns) \o ":" \o db_id

RECURSIVE JoinLabels(_)
\* processor.py:132: ";".join(node.labels)
JoinLabels(labels) ==
    IF labels = <<>> THEN ""
    ELSE IF Len(labels) = 1 THEN labels[1]
    ELSE labels[1] \o ";" \o JoinLabels(Tail(labels))

\* the outcome of assert_valid_db_refs({db_ns: db_id}) (processor.py:203, 214-218):
\* TRUE when it returns, FALSE when it raises
assert_valid_db_refs(db_ns, db_id) ==
    db_ns \in {"CHEBI", "HGNC"} /\ db_id \in {"1", "2"}

EVIDENCE == "indra_evidence"

\* processor.py:200-204: the node is yielded
NodeYielded(node) ==
    IF node.db_ns = EVIDENCE THEN TRUE
    ELSE assert_valid_db_refs(node.db_ns, node.db_id)

RECURSIVE validate_nodesStopsAtInvalid(_)
validate_nodesStopsAtInvalid(nodes) ==
    IF nodes = <<>> THEN [out |-> <<>>, log |-> <<>>]
    ELSE LET n == Len(nodes)
             before == validate_nodesStopsAtInvalid(SubSeq(nodes, 1, n - 1))
         IN  IF before.log # <<>> THEN before
             ELSE IF NodeYielded(nodes[n])
             THEN [before EXCEPT !.out = Append(@, nodes[n])]
             ELSE [before EXCEPT !.log = Append(@, [idx |-> n - 1, record |-> nodes[n]])]

RECURSIVE validate_nodes(_)
\* processor.py:197-207: out is what the generator yields, log what it logs
validate_nodes(nodes) ==
    IF nodes = <<>> THEN [out |-> <<>>, log |-> <<>>]
    ELSE LET n == Len(nodes)
             before == validate_nodes(SubSeq(nodes, 1, n - 1))
         IN  IF NodeYielded(nodes[n])
             THEN [before EXCEPT !.out = Append(@, nodes[n])]
             ELSE [before EXCEPT !.log = Append(@, [idx |-> n - 1, record |-> nodes[n]])]

RelationYieldedNoExemption(rel) ==
    /\ assert_valid_db_refs(rel.source_ns, rel.source_id)
    /\ assert_valid_db_refs(rel.target_ns, rel.target_id)

\* processor.py:213-219: the relation is yielded
RelationYielded(rel) ==
    IF rel.source_ns = EVIDENCE
    THEN assert_valid_db_refs(rel.target_ns, rel.target_id)
    ELSE /\ assert_valid_db_refs(rel.source_ns, rel.source_id)
         /\ assert_valid_db_refs(rel.target_ns, rel.target_id)

RECURSIVE validate_relations(_)
\* processor.py:210-222
validate_relations(relations) ==
    IF relations = <<>> THEN [out |-> <<>>, log |-> <<>>]
    ELSE LET n == Len(relations)
             before == validate_relations(SubSeq(relations, 1, n - 1))
         IN  IF RelationYielded(relations[n])
             THEN [before EXCEPT !.out = Append(@, relations[n])]
             ELSE [before EXCEPT !.log = Append(@, [idx |-> n - 1, record |-> relations[n]])]

NodeKeyNamespaceOnly(node) == <<Rank(NsOrder, node.db_ns)>>

\* processor.py:116: key=lambda x: (x.db_ns, x.db_id)
NodeKey(node) == <<Rank(NsOrder, node.db_ns), Rank(IdOrder, node.db_id)>>

\* processor.py:166: key=lambda r: (r.source_ns, r.source_id, r.target_ns, r.target_id)
RelationKey(rel) ==
    <<Rank(NsOrder, rel.source_ns), Rank(IdOrder, rel.source_id),
      Rank(NsOrder, rel.target_ns), Rank(IdOrder, rel.target_id)>>

\* processor.py:116
SortedNodes(nodes) ==
    Undecorate(SortedByKey([i \in DOMAIN nodes |-> [key |-> NodeKey(nodes[i]), val |-> nodes[i]]]))

\* processor.py:165-167
SortedRelations(rels) ==
    Undecorate(SortedByKey([i \in DOMAIN rels |-> [key |-> RelationKey(rels[i]), val |-> rels[i]]]))

RECURSIVE SetToSortedKeys(_)
SetToSortedKeys(keys) ==
    IF keys = {} THEN <<>>
    ELSE LET least == CHOOSE k \in keys :
                        \A other \in keys : Rank(KeyOrder, k) <= Rank(KeyOrder, other)
         IN  <<least>> \o SetToSortedKeys(keys \ {least})

\* processor.py:128 and processor.py:168: sorted(set(key for r in records for key in r.data))
Metadata(records) ==
    SetToSortedKeys(UNION {Keys(records[i].data) : i \in DOMAIN records})

NodeRowOmitsMissing(node, metadata) ==
    LET present == SelectSeq(metadata, LAMBDA k : HasKey(node.data, k))
    IN  <<norm_id(node.db_ns, node.db_id), JoinLabels(node.labels)>> \o
        [i \in DOMAIN present |-> Lookup(node.data, present[i])]

\* processor.py:130-134
NodeRow(node, metadata) ==
    <<norm_id(node.db_ns, node.db_id), JoinLabels(node.labels)>> \o
    [i \in DOMAIN metadata |-> GetOrEmpty(node.data, metadata[i])]

\* processor.py:170-175
EdgeRow(rel, metadata) ==
    <<norm_id(rel.source_ns, rel.source_id), norm_id(rel.target_ns, rel.target_id),
      rel.rel_type>> \o
    [i \in DOMAIN metadata |-> GetOrNone(rel.data, metadata[i])]

\* processor.py:148, 189: range(10)
SampleSize == 10

\* the rows zip(rows, range(10)) would take: one more than it pairs
ZipConsumedRowsFirst(n_rows) ==
    IF n_rows < SampleSize + 1 THEN n_rows ELSE SampleSize + 1

\* processor.py:148, 189: the rows zip(range(10), rows) takes from the generator
ZipConsumed(n_rows) == IF n_rows < SampleSize THEN n_rows ELSE SampleSize

\* processor.py:139-152 and processor.py:179-193: the bulk file and the sample file
WriteFiles(header, rows) ==
    LET taken == ZipConsumed(Len(rows))
        csv == [i \in DOMAIN rows |-> CsvRow(rows[i])]
    IN  [bulk |-> [header |-> header,
                   rows |-> SubSeq(csv, 1, taken) \o SubSeq(csv, taken + 1, Len(csv))],
         sample |-> [header |-> header, rows |-> SubSeq(csv, 1, taken)]]

(***************************************************************************)
(* The streams the serializer is applied to.                               *)
(***************************************************************************)
MaxStream == 3

Node(db_ns, db_id, labels, data) ==
    [db_ns |-> db_ns, db_id |-> db_id, labels |-> labels, data |-> data]

Relation(source_ns, source_id, target_ns, target_id, rel_type, data) ==
    [source_ns |-> source_ns, source_id |-> source_id, target_ns |-> target_ns,
     target_id |-> target_id, rel_type |-> rel_type, data |-> data]

NodeUniverse == <<
    Node("HGNC", "1", <<"BioEntity">>, << <<"name", "a">> >>),
    Node("HGNC", "1", <<"BioEntity", "Gene">>, <<>>),
    Node("HGNC", "2", <<"BioEntity">>, << <<"tax", "9606">> >>),
    Node("CHEBI", "2", <<"BioEntity">>, << <<"tax", "0">>, <<"name", "w">> >>),
    Node("XX", "1", <<"BioEntity">>, << <<"junk", "j">> >>),
    Node("HGNC", "x", <<"BioEntity">>, <<>>),
    Node(EVIDENCE, "1", <<"Evidence">>, << <<"name", "e">> >>) >>

RelationUniverse == <<
    Relation("HGNC", "1", "HGNC", "2", "isa", <<>>),
    Relation("HGNC", "2", "CHEBI", "2", "binds", << <<"start", "1">> >>),
    Relation("HGNC", "1", "HGNC", "2", "binds", << <<"end", "5">> >>),
    Relation(EVIDENCE, "1", "HGNC", "1", "has_citation", <<>>),
    Relation("HGNC", "1", EVIDENCE, "1", "has_evidence", <<>>),
    Relation("XX", "1", "HGNC", "1", "isa", << <<"junk", "j">> >>),
    Relation("HGNC", "2", "HGNC", "x", "isa", <<>>),
    Relation(EVIDENCE, "1", "XX", "1", "has_citation", <<>>) >>

\* a stream of n records that pass validation, but for the third when spoiled
LongStream(universe, n, spoiled) ==
    [i \in 1..n |-> IF spoiled /\ i = 3 THEN universe[5]
                    ELSE universe[((i * 3) % 4) + 1]]

\* every stream of at most MaxStream records, and streams around the sample size
Streams(universe) ==
    UNION {[1..n -> Range(universe)] : n \in 0..MaxStream}
    \cup {LongStream(universe, n, b) :
            n \in (SampleSize - 1)..(SampleSize + 2), b \in BOOLEAN}

OrchestratorIdle ==
    /\ opts = [process |-> FALSE, force_process |-> FALSE, assemble |-> FALSE,
               force_assemble |-> FALSE, skip_failed_processors |-> FALSE]
    /\ disk = {}
    /\ pc = "idle"
    /\ idx = 1
    /\ nodes_paths_for_import = <<>>
    /\ edge_paths = <<>>
    /\ node_assemblers = <<>>
    /\ checked = <<>>
    /\ attempted = {}
    /\ failed = {}
    /\ dumped = <<>>
    /\ assembled = <<>>
    /\ command = NoCommand

\* a processor instance about to dump the nodes of one node type, or its relations
InitDump ==
    /\ OrchestratorIdle
    /\ \/ kind = "nodes" /\ input \in Streams(NodeUniverse)
       \/ kind = "edges" /\ input \in Streams(RelationUniverse)
    /\ snapshot = <<>>
    /\ bulk = [header |-> <<>>, rows |-> <<>>]
    /\ sample = [header |-> <<>>, rows |-> <<>>]
    /\ written = <<>>
    /\ returned = <<>>
    /\ handed = <<>>
    /\ diagnostics = <<>>
    /\ dpc = "start"
    /\ WriteIdle

\* a dump that pickles and returns the validated nodes
_dump_nodesKeepsValidated(stream) ==
    LET validated == validate_nodes(SortedNodes(stream))
        metadata == Metadata(validated.out)
        files == WriteFiles(<<"id:ID", ":LABEL">> \o metadata,
                    [i \in DOMAIN validated.out |-> NodeRow(validated.out[i], metadata)])
    IN  [snapshot |-> validated.out,
         written |-> validated.out,
         log |-> validated.log,
         bulk |-> files.bulk,
         sample |-> files.sample,
         nodes_by_type |-> validated.out]

\* processor.py:108-121 with 124-154: one iteration of _dump_nodes on the stream
\* get_nodes yields: what is pickled, what is written, what is returned
_dump_nodes(stream) ==
    LET nodes == SortedNodes(stream)
        validated == validate_nodes(nodes)
        metadata == Metadata(validated.out)
        header == <<"id:ID", ":LABEL">> \o metadata
        files == WriteFiles(header,
                    [i \in DOMAIN validated.out |-> NodeRow(validated.out[i], metadata)])
    IN  [snapshot |-> nodes,
         written |-> validated.out,
         log |-> validated.log,
         bulk |-> files.bulk,
         sample |-> files.sample,
         nodes_by_type |-> nodes]

\* processor.py:156-194: _dump_edges with _dump_edges_to_path on the stream
\* get_relations yields
_dump_edges(stream) ==
    LET validated == validate_relations(stream)
        rels == SortedRelations(validated.out)
        metadata == Metadata(rels)
        header == <<":START_ID", ":END_ID", ":TYPE">> \o metadata
        files == WriteFiles(header,
                    [i \in DOMAIN rels |-> EdgeRow(rels[i], metadata)])
    IN  [written |-> rels,
         log |-> validated.log,
         bulk |-> files.bulk,
         sample |-> files.sample]

\* processor.py:105-154: one iteration of _dump_nodes with _dump_nodes_to_path
DumpNodes ==
    /\ dpc = "start"
    /\ kind = "nodes"
    /\ LET d == _dump_nodes(input)
       IN  /\ snapshot' = d.snapshot
           /\ written' = d.written
           /\ diagnostics' = d.log
           /\ bulk' = d.bulk
           /\ sample' = d.sample
           /\ returned' = d.nodes_by_type
    /\ dpc' = "done"
    /\ UNCHANGED <<kind, input, handed, orchVars, writeVars>>

\* processor.py:156-194: _dump_edges with _dump_edges_to_path
DumpEdges ==
    /\ dpc = "start"
    /\ kind = "edges"
    /\ LET d == _dump_edges(input)
       IN  /\ written' = d.written
           /\ diagnostics' = d.log
           /\ bulk' = d.bulk
           /\ sample' = d.sample
    /\ dpc' = "done"
    /\ UNCHANGED <<kind, input, snapshot, returned, handed, orchVars, writeVars>>

\* cli.py:139-149: main() passes the nodes dump() returned for a node type of
\* to_assemble to the assembler of the node type
AddFresh ==
    /\ dpc = "done"
    /\ kind = "nodes"
    /\ handed' = returned
    /\ dpc' = "added_fresh"
    /\ UNCHANGED <<kind, input, snapshot, bulk, sample, written, returned,
                   diagnostics, orchVars, writeVars>>

\* cli.py:150-160: in a run that leaves the processor alone, main() loads the
\* snapshot the dump wrote and passes its nodes to the assembler
AddStored ==
    /\ dpc = "done"
    /\ kind = "nodes"
    /\ handed' = snapshot
    /\ dpc' = "added_stored"
    /\ UNCHANGED <<kind, input, snapshot, bulk, sample, written, returned,
                   diagnostics, orchVars, writeVars>>

NextDump == DumpNodes \/ DumpEdges \/ AddFresh \/ AddStored

SpecDump == InitDump /\ [][NextDump]_vars

(***************************************************************************)
(* The file writes of one dump() (processor.py:84-88), file by file.       *)
(* Every file is opened at its final path: the snapshot with               *)
(* open(nodes_indra_path, "wb") (processor.py:117), the bulk files with    *)
(* gzip.open(nodes_path) and gzip.open(self.edges_path) (processor.py:139, *)
(* 180), the sample files with sample_path.open("w") (processor.py:145,    *)
(* 186); opening creates the file, or truncates the one that is there.     *)
(***************************************************************************)
WriteEvent(op, path) == [op |-> op, path |-> path]

\* processor.py:117-121 with 139-152: the files of one node type, in the order
\* they are opened and closed
NodeWrites(p, node_type) ==
    LET paths == _get_node_paths(p, node_type)
    IN  << WriteEvent("open", paths[2]), WriteEvent("close", paths[2]),
           WriteEvent("open", paths[1]), WriteEvent("open", paths[3]),
           WriteEvent("close", paths[3]), WriteEvent("close", paths[1]) >>

\* processor.py:180-193
EdgeWrites(p) ==
    << WriteEvent("open", edges_path(p)), WriteEvent("open", edges_sample_path(p)),
       WriteEvent("close", edges_sample_path(p)), WriteEvent("close", edges_path(p)) >>

RECURSIVE AllNodeWrites(_, _)
\* processor.py:108: for node_type in self.node_types
AllNodeWrites(p, types) ==
    IF types = <<>> THEN <<>>
    ELSE NodeWrites(p, Head(types)) \o AllNodeWrites(p, Tail(types))

\* processor.py:84-88: _dump_nodes, then _dump_edges
WritePlan(p) == AllNodeWrites(p, Registry[p].node_types) \o EdgeWrites(p)

\* the flags of a later run that processes if needed
ProcessIfNeeded ==
    [process |-> TRUE, force_process |-> FALSE, assemble |-> FALSE,
     force_assemble |-> FALSE, skip_failed_processors |-> FALSE]

\* what main() holds besides the disk
runVars == <<opts, pc, idx, nodes_paths_for_import, edge_paths, node_assemblers,
             checked, attempted, failed, dumped, assembled, command>>

\* main() has constructed a processor it needs to run and calls dump() (cli.py:139)
InitWrite ==
    /\ opts \in {o \in Options : /\ o.process \/ o.force_process
                                 /\ ~o.assemble /\ ~o.force_assemble
                                 /\ ~o.skip_failed_processors}
    /\ wproc \in {p \in Procs : Registry[p].importable}
    /\ disk \in DiskScenarios(wproc)
    /\ NeedsRun(opts, wproc, disk)
    /\ pc = "idle"
    /\ idx = 1
    /\ nodes_paths_for_import = <<>>
    /\ edge_paths = <<>>
    /\ node_assemblers = <<>>
    /\ checked = <<>>
    /\ attempted = {}
    /\ failed = {}
    /\ dumped = <<>>
    /\ assembled = <<>>
    /\ command = NoCommand
    /\ DumpIdle
    /\ wpos = 1
    /\ wpc = "writing"
    /\ partial = {}
    /\ later = "none"

\* open(path, "w"): the file is at its final path, with nothing in it yet
WriteOpen ==
    /\ wpc = "writing"
    /\ wpos <= Len(WritePlan(wproc))
    /\ WritePlan(wproc)[wpos].op = "open"
    /\ disk' = disk \cup {WritePlan(wproc)[wpos].path}
    /\ partial' = partial \cup {WritePlan(wproc)[wpos].path}
    /\ wpos' = wpos + 1
    /\ UNCHANGED <<wproc, wpc, later>>
    /\ UNCHANGED <<runVars, dumpVars>>

\* the end of a with block: everything was written to the file
WriteClose ==
    /\ wpc = "writing"
    /\ wpos <= Len(WritePlan(wproc))
    /\ WritePlan(wproc)[wpos].op = "close"
    /\ partial' = partial \ {WritePlan(wproc)[wpos].path}
    /\ wpos' = wpos + 1
    /\ UNCHANGED <<disk, wproc, wpc, later>>
    /\ UNCHANGED <<runVars, dumpVars>>

\* dump() returns
WriteFinish ==
    /\ wpc = "writing"
    /\ wpos > Len(WritePlan(wproc))
    /\ wpc' = "finished"
    /\ UNCHANGED <<disk, wproc, wpos, partial, later>>
    /\ UNCHANGED <<runVars, dumpVars>>

\* a write to an open file raises (processor.py:118, 142-152, 183-193); the with
\* blocks close the files, nothing removes them, and main() has no handler
WriteRaise ==
    /\ wpc = "writing"
    /\ partial # {}
    /\ wpc' = "raised"
    /\ UNCHANGED <<disk, wproc, wpos, partial, later>>
    /\ UNCHANGED <<runVars, dumpVars>>

\* cli.py:103-126 in a later run with process set: the processor is run again
\* unless its files make it count as processed
LaterRun ==
    /\ wpc \in {"raised", "finished"}
    /\ later = "none"
    /\ later' = IF NeedsRun(ProcessIfNeeded, wproc, disk) THEN "extracts" ELSE "skips"
    /\ UNCHANGED <<disk, wproc, wpos, wpc, partial>>
    /\ UNCHANGED <<runVars, dumpVars>>

NextWrite == WriteOpen \/ WriteClose \/ WriteFinish \/ WriteRaise \/ LaterRun

SpecWrite == InitWrite /\ [][NextWrite]_vars

(***************************************************************************)
(* Vocabulary of the orchestrator's properties.                            *)
(***************************************************************************)
Importable == {p \in Procs : Registry[p].importable}

\* the importable processors that produce nodes of this type
ContributorsOf(node_type) ==
    {p \in Importable : node_type \in Range(Registry[p].node_types)}

\* the tabular node file or the snapshot of a node type, or the edge file, is absent
OutputsMissing(p, d) ==
    \/ \E t \in Range(Registry[p].node_types) :
          _get_node_paths(p, t)[1] \notin d \/ _get_node_paths(p, t)[2] \notin d
    \/ edges_path(p) \notin d

\* main() got past the loop without an exception
LoopCompleted == pc \in {"assemble", "import", "done"}

NoDuplicates(s) == \A i, j \in DOMAIN s : s[i] = s[j] => i = j

RECURSIVE ExpectedNodePaths(_, _)
\* the assembled paths, then the directly imported node files of the first n
\* registry entries that are importable and not excluded, in registry order
ExpectedNodePaths(n, excluded) ==
    IF n = 0
    THEN [i \in DOMAIN to_assemble |-> _get_assembled_path(to_assemble[i])]
    ELSE ExpectedNodePaths(n - 1, excluded) \o
         (IF Registry[n].importable /\ n \notin excluded
          THEN processor_import_paths(n) ELSE <<>>)

RECURSIVE ExpectedEdgePaths(_, _)
ExpectedEdgePaths(n, excluded) ==
    IF n = 0 THEN <<>>
    ELSE ExpectedEdgePaths(n - 1, excluded) \o
         (IF Registry[n].importable /\ n \notin excluded
          THEN <<edges_path(n)>> ELSE <<>>)

HasAssemblySource(node_type) ==
    \E i \in DOMAIN checked :
        LET p == checked[i].proc
        IN  /\ p \in ContributorsOf(node_type)
            /\ \/ p \in Range(dumped)
               \/ p \notin attempted /\ ~OutputsMissing(p, checked[i].disk)

RECURSIVE ExpectedAdded(_, _)
\* what the assembler of a node type has been given after n registry entries
ExpectedAdded(node_type, n) ==
    IF n = 0 THEN <<>>
    ELSE ExpectedAdded(node_type, n - 1) \o
         (IF n \in ContributorsOf(node_type) /\ n \in Range(dumped)
          THEN <<[proc |-> n, origin |-> "fresh"]>>
          ELSE IF /\ n \in ContributorsOf(node_type)
                  /\ n \notin attempted
                  /\ \E i \in DOMAIN checked :
                        checked[i].proc = n /\ ~OutputsMissing(n, checked[i].disk)
          THEN <<[proc |-> n, origin |-> "snapshot"]>>
          ELSE <<>>)

Count(s, x) == Cardinality({i \in DOMAIN s : s[i] = x})

\* the external validator accepts the identifier
ExternallyValid(ns, id) == assert_valid_db_refs(ns, id)

\* a node passes validation: its identifier is an evidence identifier or is accepted
NodeValid(node) ==
    node.db_ns = EVIDENCE \/ ExternallyValid(node.db_ns, node.db_id)

\* a relation passes validation: its two endpoints do, a source in the evidence
\* namespace being exempt
RelationValid(rel) ==
    /\ rel.source_ns = EVIDENCE \/ ExternallyValid(rel.source_ns, rel.source_id)
    /\ ExternallyValid(rel.target_ns, rel.target_id)

RecordValid(r) == IF kind = "nodes" THEN NodeValid(r) ELSE RelationValid(r)

FixedColumns == IF kind = "nodes" THEN 2 ELSE 3

\* the row the bulk file holds for a written record
RowOf(r) ==
    IF kind = "nodes"
    THEN <<norm_id(r.db_ns, r.db_id), JoinLabels(r.labels)>>
    ELSE <<norm_id(r.source_ns, r.source_id), norm_id(r.target_ns, r.target_id),
           r.rel_type>>

(***************************************************************************)
(* C7. Validation filtering: after a dump, of nodes or of relations, a     *)
(* record that fails validation has no row in the bulk file, every record  *)
(* that passes has as many rows as it has occurrences in the input         *)
(* (wherever the invalid records are in the stream), each row is the row   *)
(* of its record, and there is one diagnostic for each invalid input       *)
(* record, carrying its index in the stream that was validated.            *)
(***************************************************************************)
C7_ValidationFiltering ==
    dpc = "done" =>
        /\ \A r \in Range(input) :
              Count(written, r) = IF RecordValid(r) THEN Count(input, r) ELSE 0
        /\ Range(written) \subseteq Range(input)
        /\ Len(bulk.rows) = Len(written)
        /\ \A i \in DOMAIN written :
              SubSeq(bulk.rows[i], 1, FixedColumns) = RowOf(written[i])
        /\ Len(diagnostics) =
              Cardinality({i \in DOMAIN input : ~RecordValid(input[i])})
        /\ \A i \in DOMAIN diagnostics : ~RecordValid(diagnostics[i].record)

\* a valid node, then an invalid one, then a valid one: two rows, one diagnostic
C7_Witness ==
    /\ dpc = "done"
    /\ kind = "nodes"
    /\ Len(input) = 3
    /\ NodeValid(input[1]) /\ ~NodeValid(input[2]) /\ NodeValid(input[3])
    /\ input[1] # input[3]
    /\ Len(bulk.rows) = 2
    /\ Len(diagnostics) = 1

(***************************************************************************)
(* C8 as stated: a node in the evidence namespace survives validation, and *)
(* a relation with an endpoint (source or target) in the evidence          *)
(* namespace is written exactly when each endpoint outside that namespace  *)
(* is accepted by the external validator.                                  *)
(***************************************************************************)
C8_Original ==
    dpc = "done" =>
        /\ kind = "nodes" =>
              \A r \in Range(input) :
                  r.db_ns = EVIDENCE => Count(written, r) = Count(input, r)
        /\ kind = "edges" =>
              \A r \in Range(input) :
                  (r.source_ns = EVIDENCE \/ r.target_ns = EVIDENCE) =>
                      (r \in Range(written) <=>
                          /\ r.source_ns = EVIDENCE
                                \/ ExternallyValid(r.source_ns, r.source_id)
                          /\ r.target_ns = EVIDENCE
                                \/ ExternallyValid(r.target_ns, r.target_id))

(***************************************************************************)
(* C8 amended. A node in the evidence namespace always survives            *)
(* validation, and a relation is never dropped because of a source in the  *)
(* evidence namespace: it is written exactly when its target is accepted   *)
(* by the external validator.  The target of a relation is not exempt: a   *)
(* relation whose target is in the evidence namespace is written only if   *)
(* the external validator accepts that target.                             *)
(***************************************************************************)
C8_EvidenceExemption ==
    dpc = "done" =>
        /\ kind = "nodes" =>
              \A r \in Range(input) :
                  r.db_ns = EVIDENCE => Count(written, r) = Count(input, r)
        /\ kind = "edges" =>
              \A r \in Range(input) :
                  /\ r.source_ns = EVIDENCE =>
                        (r \in Range(written)
                            <=> ExternallyValid(r.target_ns, r.target_id))
                  /\ (r.target_ns = EVIDENCE /\ r \in Range(written)) =>
                        ExternallyValid(r.target_ns, r.target_id)

\* an evidence source with a valid target is written, one with an invalid target and
\* a relation to an evidence target are dropped
C8_Witness ==
    /\ dpc = "done"
    /\ kind = "edges"
    /\ Len(input) = 3
    /\ written = <<Relation(EVIDENCE, "1", "HGNC", "1", "has_citation", <<>>)>>
    /\ \E i \in DOMAIN input : input[i].target_ns = EVIDENCE
    /\ \E i \in DOMAIN input : input[i].source_ns = EVIDENCE /\ input[i].target_ns = "XX"

\* the place of an identifier in the order of (namespace, local-id)
IdentifierKey(ns, id) == <<Rank(NsOrder, ns), Rank(IdOrder, id)>>

\* the key the rows of a bulk file are to be ordered by
KeyOf(r) ==
    IF kind = "nodes"
    THEN IdentifierKey(r.db_ns, r.db_id)
    ELSE IdentifierKey(r.source_ns, r.source_id) \o IdentifierKey(r.target_ns, r.target_id)

C10_SchemaCompleteness ==
    dpc = "done" =>
        LET attrs == SubSeq(bulk.header, FixedColumns + 1, Len(bulk.header))
        IN  /\ Len(bulk.header) >= FixedColumns
            /\ Range(attrs) = UNION {Keys(written[i].data) : i \in DOMAIN written}
            /\ \A i, j \in DOMAIN attrs :
                  i < j => Rank(KeyOrder, attrs[i]) < Rank(KeyOrder, attrs[j])
            /\ Len(bulk.rows) = Len(written)
            /\ \A i \in DOMAIN bulk.rows :
                  /\ Len(bulk.rows[i]) = Len(bulk.header)
                  /\ \A c \in DOMAIN attrs :
                        bulk.rows[i][FixedColumns + c] =
                            IF HasKey(written[i].data, attrs[c])
                            THEN Lookup(written[i].data, attrs[c])
                            ELSE ""

\* two attribute columns, each row lacking one of them, and a dropped record whose
\* attribute key is in no column
C10_Witness ==
    /\ dpc = "done"
    /\ kind = "edges"
    /\ bulk.header = <<":START_ID", ":END_ID", ":TYPE", "end", "start">>
    /\ Len(bulk.rows) = 2
    /\ \E i \in DOMAIN bulk.rows : bulk.rows[i][4] = "" /\ bulk.rows[i][5] = "1"
    /\ \E i \in DOMAIN bulk.rows : bulk.rows[i][4] = "5" /\ bulk.rows[i][5] = ""
    /\ \E i \in DOMAIN input : HasKey(input[i].data, "junk")

(***************************************************************************)
(* C11. Sample file: when a dump wrote n records, the sample file has the  *)
(* header of the bulk file followed by exactly the first min(10, n) rows   *)
(* of the bulk file, in the same order and with the same columns; the bulk *)
(* file has one row for each of the n records, in their order, so the row  *)
(* after the sample is not lost and none of the sampled rows is repeated.  *)
(***************************************************************************)
C11_SampleFile ==
    dpc = "done" =>
        LET n == Len(written)
            k == IF n < 10 THEN n ELSE 10
        IN  /\ sample.header = bulk.header
            /\ Len(sample.rows) = k
            /\ \A i \in 1..k : sample.rows[i] = bulk.rows[i]
            /\ Len(bulk.rows) = n
            /\ \A i \in 1..n :
                  SubSeq(bulk.rows[i], 1, FixedColumns) = RowOf(written[i])

\* twelve records were written: the sample has the first ten rows, which are not all
\* alike, and the bulk file has two rows more
C11_Witness ==
    /\ dpc = "done"
    /\ Len(written) = 12
    /\ Len(sample.rows) = 10
    /\ Len(bulk.rows) = 12
    /\ sample.rows[1] # sample.rows[10]
    /\ SubSeq(bulk.rows[11], 1, FixedColumns) = RowOf(written[11])

Rearranged(s, f) == [i \in DOMAIN s |-> s[f[i]]]

\* other arrival orders of a stream: every one for a short stream; for a long one
\* the reverse and the rotation by one
Rearrangements(s) ==
    IF Len(s) <= MaxStream
    THEN {Rearranged(s, f) : f \in Permutations(DOMAIN s)}
    ELSE {[i \in DOMAIN s |-> s[Len(s) + 1 - i]],
          [i \in DOMAIN s |-> s[(i % Len(s)) + 1]]}

\* the files a dump of the same kind writes when the stream is q
FilesOf(q) ==
    IF kind = "nodes"
    THEN [bulk |-> _dump_nodes(q).bulk, sample |-> _dump_nodes(q).sample]
    ELSE [bulk |-> _dump_edges(q).bulk, sample |-> _dump_edges(q).sample]

\* no two records of the stream that pass validation have the same sort key
\* and differ
KeyDecidesOrder(s) ==
    \A i, j \in DOMAIN s :
        (RecordValid(s[i]) /\ RecordValid(s[j]) /\ KeyOf(s[i]) = KeyOf(s[j]))
            => s[i] = s[j]

InitialDisk == IF checked = <<>> THEN disk ELSE checked[1].disk

\* the paths of the command
CommandPaths == Range(command.nodes) \cup Range(command.edges)

\* the node file of each node type that is not assembled, and the edge file
ImportedFiles(p) == Range(processor_import_paths(p)) \cup {edges_path(p)}

BothIfNeeded ==
    /\ opts.process /\ ~opts.force_process
    /\ opts.assemble /\ ~opts.force_assemble

====
